---- MODULE Spec2Model ----
(***************************************************************************)
(* Loan planning and ranking engine of greek-finlit-agent, its literacy     *)
(* assessment and the chat history of its two front ends:                  *)
(*   services/loan_plan_generator_service.py  (LoanPlanGeneratorService)   *)
(*   services/loan_comparison_service.py      (LoanComparisonService)      *)
(*   services/affordability_service.py        (AffordabilityService)       *)
(*   services/loan_information_service.py     (LoanInformationService)     *)
(*   services/financial_calculator_service.py (FinancialCalculatorService) *)
(*   services/amortization_service.py         (AmortizationService)        *)
(*   literacy_assessment.py            (FinancialLiteracyAssessment)       *)
(*   ui/chat_ui.py, main.py            (the chat history)                  *)
(*                                                                         *)
(* Number representation.  The services compute in binary floating point;  *)
(* the model computes in fixed point over the integers:                    *)
(*   money                    whole currency units                         *)
(*   annual interest rate     basis points          (0.035  -> 350)        *)
(*   monthly interest rate    units of 10^-5                               *)
(*   powers of 1 + rate       units of 10^-8                               *)
(*   down payment fraction    percent               (0.20   -> 20)         *)
(*   payment ratios, shares   tenths of a percent   (30.0 % -> 300)        *)
(*   sub-scores               tenths of a point     (100.0  -> 1000)       *)
(*   overall score            thousandths of a point(100.0  -> 100000)     *)
(*   scoring weights          percent               (0.30   -> 30)         *)
(*   values of a comparison   thousandths           (0.1    -> 100)        *)
(* Divisions truncate.                                                     *)
(*                                                                         *)
(* The loop of calculate_amortization_schedule is taken one month a step;  *)
(* every other function is one step.  A call that raises leaves the name   *)
(* of its exception in error.                                              *)
(***************************************************************************)
EXTENDS Integers, Sequences, FiniteSets, TLC

Max(a, b) == IF a >= b THEN a ELSE b
Min(a, b) == IF a <= b THEN a ELSE b
Abs(a) == IF a >= 0 THEN a ELSE 0 - a

\* min(s) and max(s) of a non-empty list.
SeqMin(s) == CHOOSE x \in {s[i] : i \in 1..Len(s)} : \A i \in 1..Len(s) : x <= s[i]

SeqMax(s) == CHOOSE x \in {s[i] : i \in 1..Len(s)} : \A i \in 1..Len(s) : x >= s[i]

(***************************************************************************)
(* LoanPlanGeneratorService                                                *)
(***************************************************************************)

\* DEFAULT_RATES, annual, in basis points.
DEFAULT_RATES ==
    [mortgage |-> 350, personal |-> 700, auto |-> 500,
     student |-> 400, business |-> 600, unknown |-> 600]

\* TERM_OPTIONS, in years.
TERM_OPTIONS ==
    [mortgage |-> <<15, 20, 25, 30>>, personal |-> <<3, 5, 7>>,
     auto |-> <<3, 5, 7>>, student |-> <<10, 15, 20>>,
     business |-> <<5, 10, 15>>, unknown |-> <<5, 10, 15>>]

\* DOWN_PAYMENT_OPTIONS, in percent.
DOWN_PAYMENT_OPTIONS == <<10, 15, 20>>

\* The amount above which a mortgage gets down payment variations.
DOWN_PAYMENT_THRESHOLD == 50000

\* custom_rate = None: the caller gave no rate.
NoCustomRate == -1

\* The value create_loan_plan returns instead of a plan (Python's None).
None == [is_none |-> TRUE]

IsNone(p) == "is_none" \in DOMAIN p

\* a * b for a and b in units of 10^-8, the product taken in four-digit
\* limbs to stay within 32 bits; the part below 10^-8 is dropped.
FixedMul(a, b) ==
    LET a1 == a \div 10000
        a0 == a % 10000
        b1 == b \div 10000
        b0 == b % 10000
    IN  a1 * b1 + (a1 * b0 + a0 * b1) \div 10000

\* (1 + monthly_rate) ** n in units of 10^-8, by repeated squaring;
\* monthly_rate is in units of 10^-5.
RECURSIVE CompoundFactor(_, _)
CompoundFactor(monthly_rate, n) ==
    IF n = 0 THEN 100000000
    ELSE LET half == CompoundFactor(monthly_rate, n \div 2)
             square == FixedMul(half, half)
         IN  IF n % 2 = 1
             THEN FixedMul(square, 100000000 + monthly_rate * 1000)
             ELSE square

\* (numerator * 1000) \div denominator by long division, three decimal digits
\* after the integer quotient, for a denominator below 2 * 10^8.
ScaledDiv(numerator, denominator) ==
    LET q0 == numerator \div denominator
        r0 == numerator % denominator
        d1 == (r0 * 10) \div denominator
        r1 == (r0 * 10) % denominator
        d2 == (r1 * 10) \div denominator
        r2 == (r1 * 10) % denominator
        d3 == (r2 * 10) \div denominator
    IN  q0 * 1000 + d1 * 100 + d2 * 10 + d3

\* annual_rate / 12: basis points to units of 10^-5 a month.
MonthlyRate(annual_rate) == (annual_rate * 10) \div 12

\* The annuity formula all three services write out,
\*   principal * (r * (1 + r) ** n) / ((1 + r) ** n - 1),
\* for r > 0 in units of 10^-5, cut to whole units.  With g = (1 + r) ** n it
\* is taken as principal * r + principal * r / (g - 1), which is the same
\* quotient and keeps every intermediate value within 32 bits.
AnnuityPayment(principal, monthly_rate, num_payments) ==
    LET growth == CompoundFactor(monthly_rate, num_payments)
        interest == principal * monthly_rate
    IN  interest \div 100000 + ScaledDiv(interest, growth - 100000000)

\* _calculate_monthly_payment
_calculate_monthly_payment(principal, annual_rate, years) ==
    IF principal <= 0 \/ years <= 0 THEN 0
    ELSE IF annual_rate = 0 THEN principal \div (years * 12)
    ELSE LET monthly_rate == MonthlyRate(annual_rate)
             num_payments == years * 12
         IN  AnnuityPayment(principal, monthly_rate, num_payments)

\* _generate_plan_name: the term bucket and the affordability bucket.
_generate_plan_name(term_years, down_payment_pct, payment_ratio) ==
    LET term_desc == IF term_years <= 10 THEN "fast payoff"
                     ELSE IF term_years <= 20 THEN "balanced"
                     ELSE "long-term"
        affordability == IF payment_ratio <= 250 THEN "comfortable"
                         ELSE IF payment_ratio <= 350 THEN "moderate"
                         ELSE "demanding"
    IN  <<term_desc, term_years, affordability>>

\* create_loan_plan that makes a plan of a loan amount of 0.
create_loan_plan_of_nothing(id, total_amount, down_payment_percentage, interest_rate, term_years, monthly_income) ==
    LET down_payment == (total_amount * down_payment_percentage) \div 100
        loan_amount == total_amount - down_payment
        monthly_payment ==
            _calculate_monthly_payment(loan_amount, interest_rate, term_years)
        total_payments == monthly_payment * term_years * 12
        total_interest == total_payments - loan_amount
        total_cost == total_payments + down_payment
        payment_ratio == IF monthly_income > 0
                         THEN (monthly_payment * 1000) \div monthly_income
                         ELSE 0
    IN  IF loan_amount < 0 \/ term_years <= 0 THEN None
        ELSE [id |-> id,
              name |-> _generate_plan_name(term_years, down_payment_percentage,
                                           payment_ratio),
              amount |-> loan_amount,
              term_years |-> term_years,
              interest_rate |-> interest_rate,
              down_payment |-> down_payment,
              down_payment_percentage |-> down_payment_percentage,
              monthly_payment |-> monthly_payment,
              total_interest |-> total_interest,
              total_cost |-> total_cost,
              payment_to_income_ratio |-> payment_ratio]

\* create_loan_plan that leaves the down payment out of the total cost.
create_loan_plan_payments_only(id, total_amount, down_payment_percentage, interest_rate, term_years, monthly_income) ==
    LET down_payment == (total_amount * down_payment_percentage) \div 100
        loan_amount == total_amount - down_payment
        monthly_payment ==
            _calculate_monthly_payment(loan_amount, interest_rate, term_years)
        total_payments == monthly_payment * term_years * 12
        total_interest == total_payments - loan_amount
        total_cost == total_payments
        payment_ratio == IF monthly_income > 0
                         THEN (monthly_payment * 1000) \div monthly_income
                         ELSE 0
    IN  IF loan_amount <= 0 \/ term_years <= 0 THEN None
        ELSE [id |-> id,
              name |-> _generate_plan_name(term_years, down_payment_percentage,
                                           payment_ratio),
              amount |-> loan_amount,
              term_years |-> term_years,
              interest_rate |-> interest_rate,
              down_payment |-> down_payment,
              down_payment_percentage |-> down_payment_percentage,
              monthly_payment |-> monthly_payment,
              total_interest |-> total_interest,
              total_cost |-> total_cost,
              payment_to_income_ratio |-> payment_ratio]

\* create_loan_plan; id stands for the uuid it draws.
create_loan_plan(id, total_amount, down_payment_percentage, interest_rate, term_years, monthly_income) ==
    LET down_payment == (total_amount * down_payment_percentage) \div 100
        loan_amount == total_amount - down_payment
        monthly_payment ==
            _calculate_monthly_payment(loan_amount, interest_rate, term_years)
        total_payments == monthly_payment * term_years * 12
        total_interest == total_payments - loan_amount
        total_cost == total_payments + down_payment
        payment_ratio == IF monthly_income > 0
                         THEN (monthly_payment * 1000) \div monthly_income
                         ELSE 0
    IN  IF loan_amount <= 0 \/ term_years <= 0 THEN None
        ELSE [id |-> id,
              name |-> _generate_plan_name(term_years, down_payment_percentage,
                                           payment_ratio),
              amount |-> loan_amount,
              term_years |-> term_years,
              interest_rate |-> interest_rate,
              down_payment |-> down_payment,
              down_payment_percentage |-> down_payment_percentage,
              monthly_payment |-> monthly_payment,
              total_interest |-> total_interest,
              total_cost |-> total_cost,
              payment_to_income_ratio |-> payment_ratio]

\* `if plan: plans.append(plan)`
AppendPlan(plans, plan) == IF IsNone(plan) THEN plans ELSE Append(plans, plan)

\* PlanParameters with the threshold itself counted as above it.
PlanParametersAtThreshold(total_amount, loan_type, term_options) ==
    IF loan_type = "mortgage" /\ total_amount >= DOWN_PAYMENT_THRESHOLD
    THEN LET n == Len(DOWN_PAYMENT_OPTIONS)
         IN  [k \in 1..(Len(term_options) * n) |->
                [term |-> term_options[((k - 1) \div n) + 1],
                 down_pct |-> DOWN_PAYMENT_OPTIONS[((k - 1) % n) + 1]]]
    ELSE [k \in 1..Len(term_options) |-> [term |-> term_options[k], down_pct |-> 0]]

\* The (term, down payment) pairs generate_loan_options goes through, in the
\* order of its loops: for each term, each of DOWN_PAYMENT_OPTIONS for a
\* mortgage above the threshold, and 0 otherwise.
PlanParameters(total_amount, loan_type, term_options) ==
    IF loan_type = "mortgage" /\ total_amount > DOWN_PAYMENT_THRESHOLD
    THEN LET n == Len(DOWN_PAYMENT_OPTIONS)
         IN  [k \in 1..(Len(term_options) * n) |->
                [term |-> term_options[((k - 1) \div n) + 1],
                 down_pct |-> DOWN_PAYMENT_OPTIONS[((k - 1) % n) + 1]]]
    ELSE [k \in 1..Len(term_options) |-> [term |-> term_options[k], down_pct |-> 0]]

generate_loan_options(total_amount, loan_type, monthly_income, custom_rate) ==
    LET interest_rate ==
            IF custom_rate # NoCustomRate THEN custom_rate
            ELSE IF loan_type \in DOMAIN DEFAULT_RATES
                 THEN DEFAULT_RATES[loan_type]
                 ELSE DEFAULT_RATES["unknown"]
        term_options ==
            IF loan_type \in DOMAIN TERM_OPTIONS
            THEN TERM_OPTIONS[loan_type]
            ELSE TERM_OPTIONS["unknown"]
        parameters == PlanParameters(total_amount, loan_type, term_options)
        created == [k \in 1..Len(parameters) |->
                      create_loan_plan(k, total_amount, parameters[k].down_pct,
                                       interest_rate, parameters[k].term,
                                       monthly_income)]
    IN  SelectSeq(created, LAMBDA plan : ~IsNone(plan))

(***************************************************************************)
(* LoanComparisonService                                                   *)
(***************************************************************************)

\* Scoring weights, in percent.
AFFORDABILITY_WEIGHT == 30
COST_WEIGHT == 25
PAYMENT_WEIGHT == 20
TERM_WEIGHT == 15
FLEXIBILITY_WEIGHT == 10

\* Safe affordability thresholds, in percent.
SAFE_PAYMENT_RATIO == 30
WARNING_PAYMENT_RATIO == 40

\* preferences or {}: a key that is absent reads as False.
NoPreferences == [prefer_short_term |-> FALSE, prefer_long_term |-> FALSE]

_score_affordability(plan) ==
    LET ratio == plan.payment_to_income_ratio
    IN  IF ratio <= SAFE_PAYMENT_RATIO * 10 THEN 1000
        ELSE IF ratio <= WARNING_PAYMENT_RATIO * 10
        THEN 1000 - ((ratio - SAFE_PAYMENT_RATIO * 10) * 50)
                        \div (WARNING_PAYMENT_RATIO - SAFE_PAYMENT_RATIO)
        ELSE LET excess == ratio - WARNING_PAYMENT_RATIO * 10
             IN  Max(0, 500 - excess * 2)

_score_cost(plan, all_plans) ==
    IF all_plans = << >> THEN 500
    ELSE LET costs == [i \in 1..Len(all_plans) |-> all_plans[i].total_cost]
             min_cost == SeqMin(costs)
             max_cost == SeqMax(costs)
         IN  IF max_cost = min_cost THEN 1000
             ELSE LET score == 1000 - ((plan.total_cost - min_cost) * 1000)
                                         \div (max_cost - min_cost)
                  IN  Max(0, Min(1000, score))

_score_monthly_payment(plan, all_plans) ==
    IF all_plans = << >> THEN 500
    ELSE LET payments == [i \in 1..Len(all_plans) |-> all_plans[i].monthly_payment]
             min_payment == SeqMin(payments)
             max_payment == SeqMax(payments)
         IN  IF max_payment = min_payment THEN 1000
             ELSE LET score == 1000 - ((plan.monthly_payment - min_payment) * 1000)
                                         \div (max_payment - min_payment)
                  IN  Max(0, Min(1000, score))

_score_term(plan, preferences) ==
    IF preferences.prefer_short_term
    THEN Max(0, 1000 - (plan.term_years - 10) * 50)
    ELSE IF preferences.prefer_long_term
    THEN Max(0, Min(1000, (plan.term_years - 10) * 50))
    ELSE IF 15 <= plan.term_years /\ plan.term_years <= 20 THEN 1000
    ELSE IF plan.term_years < 15 THEN 700 + (plan.term_years - 10) * 60
    ELSE 1000 - (plan.term_years - 20) * 30

_score_flexibility(plan) ==
    LET term_factor == Max(0, 1000 - (plan.term_years - 5) * 30)
        ratio_factor == Max(0, 1000 - plan.payment_to_income_ratio * 2)
    IN  (term_factor + ratio_factor) \div 2

_generate_recommendation_reason(plan, affordability, cost, payment, term) ==
    LET r1 == IF affordability >= 800 THEN <<"very affordable">>
              ELSE IF affordability >= 600 THEN <<"reliable">>
              ELSE << >>
        r2 == IF cost >= 800 THEN <<"low total cost">> ELSE << >>
        r3 == IF payment >= 800 THEN <<"low monthly payment">> ELSE << >>
        r4 == IF plan.term_years <= 15 THEN <<"fast payoff">>
              ELSE IF plan.term_years >= 25 THEN <<"small monthly burden">>
              ELSE << >>
        reasons == r1 \o r2 \o r3 \o r4
    IN  IF reasons # << >> THEN reasons ELSE <<"balanced choice">>

\* The body of the loop of rank_loan_plans: the RankedPlan of one plan.
ScorePlan(plan, plans, preferences) ==
    LET affordability_score == _score_affordability(plan)
        cost_score == _score_cost(plan, plans)
        payment_score == _score_monthly_payment(plan, plans)
        term_score == _score_term(plan, preferences)
        overall_score == affordability_score * AFFORDABILITY_WEIGHT
                         + cost_score * COST_WEIGHT
                         + payment_score * PAYMENT_WEIGHT
                         + term_score * TERM_WEIGHT
                         + _score_flexibility(plan) * FLEXIBILITY_WEIGHT
    IN  [plan |-> plan,
         score |-> overall_score,
         affordability_score |-> affordability_score,
         cost_score |-> cost_score,
         payment_score |-> payment_score,
         term_score |-> term_score,
         recommendation_reason |->
            _generate_recommendation_reason(plan, affordability_score,
                                            cost_score, payment_score, term_score)]

\* The place of ranked_plans[i] in the sorted list when ties are reversed.
PlaceUnstable(ranked_plans, i) ==
    Cardinality({j \in 1..Len(ranked_plans) :
                    \/ ranked_plans[j].score > ranked_plans[i].score
                    \/ ranked_plans[j].score = ranked_plans[i].score /\ j > i}) + 1

\* The place of ranked_plans[i] in the sorted list when the sort ascends.
PlaceAscending(ranked_plans, i) ==
    Cardinality({j \in 1..Len(ranked_plans) :
                    \/ ranked_plans[j].score < ranked_plans[i].score
                    \/ ranked_plans[j].score = ranked_plans[i].score /\ j < i}) + 1

\* The place list.sort(key=score, reverse=True) gives ranked_plans[i]: behind
\* every entry of higher score and, list.sort being stable also with
\* reverse=True, behind the entries of equal score that come before it.
PlaceByScore(ranked_plans, i) ==
    Cardinality({j \in 1..Len(ranked_plans) :
                    \/ ranked_plans[j].score > ranked_plans[i].score
                    \/ ranked_plans[j].score = ranked_plans[i].score /\ j < i}) + 1

\* ranked_plans.sort(key=lambda x: x.score, reverse=True)
SortByScore(ranked_plans) ==
    [k \in 1..Len(ranked_plans) |->
        ranked_plans[CHOOSE i \in 1..Len(ranked_plans) : PlaceByScore(ranked_plans, i) = k]]

\* rank_loan_plans that scores the term for a borrower without income as
\* for one who prefers a short term.
rank_loan_plans_by_income(plans, financial_data, preferences) ==
    IF plans = << >> THEN << >>
    ELSE LET wishes == IF financial_data.monthly_income > 0 THEN preferences
                       ELSE [prefer_short_term |-> TRUE, prefer_long_term |-> FALSE]
         IN  SortByScore([i \in 1..Len(plans) |-> ScorePlan(plans[i], plans, wishes)])

\* rank_loan_plans; financial_data is accepted and not read.
rank_loan_plans(plans, financial_data, preferences) ==
    IF plans = << >> THEN << >>
    ELSE SortByScore([i \in 1..Len(plans) |-> ScorePlan(plans[i], plans, preferences)])

\* _is_diverse_from_selected, from selected[k] on: False at the first
\* selected plan that is within 5 years of term, or within 15% of monthly
\* payment.
RECURSIVE DiverseLoop(_, _, _)
DiverseLoop(plan, selected, k) ==
    IF k > Len(selected) THEN TRUE
    ELSE LET selected_plan == selected[k]
         IN  IF Abs(plan.term_years - selected_plan.term_years) < 5 THEN FALSE
             ELSE LET payment_diff_pct ==
                          (Abs(plan.monthly_payment - selected_plan.monthly_payment) * 100)
                              \div selected_plan.monthly_payment
                  IN  IF payment_diff_pct < 15 THEN FALSE
                      ELSE DiverseLoop(plan, selected, k + 1)

_is_diverse_from_selected(plan, selected) == DiverseLoop(plan, selected, 1)

\* SelectLoop accepting a plan only when it is diverse.
RECURSIVE SelectLoopDiverseOnly(_, _, _, _)
SelectLoopDiverseOnly(selected, ranked_plans, k, count) ==
    IF k > Len(ranked_plans) \/ Len(selected) >= count THEN selected
    ELSE LET is_diverse == _is_diverse_from_selected(ranked_plans[k].plan, selected)
         IN  SelectLoopDiverseOnly(IF is_diverse
                                   THEN Append(selected, ranked_plans[k].plan)
                                   ELSE selected,
                                   ranked_plans, k + 1, count)

\* The loop of select_best_plans over ranked_plans[1:], from ranked_plans[k] on.
RECURSIVE SelectLoop(_, _, _, _)
SelectLoop(selected, ranked_plans, k, count) ==
    IF k > Len(ranked_plans) \/ Len(selected) >= count THEN selected
    ELSE LET is_diverse == _is_diverse_from_selected(ranked_plans[k].plan, selected)
         IN  SelectLoop(IF is_diverse \/ Len(selected) < count
                        THEN Append(selected, ranked_plans[k].plan)
                        ELSE selected,
                        ranked_plans, k + 1, count)

\* select_best_plans with its loop over ranked_plans instead of ranked_plans[1:].
select_best_plans_whole_list(ranked_plans, count) ==
    IF ranked_plans = << >> \/ count <= 0 THEN << >>
    ELSE IF Len(ranked_plans) <= count
    THEN [i \in 1..Len(ranked_plans) |-> ranked_plans[i].plan]
    ELSE LET selected == SelectLoop(<<ranked_plans[1].plan>>, ranked_plans, 1, count)
         IN  SubSeq(selected, 1, Min(count, Len(selected)))

select_best_plans(ranked_plans, count) ==
    IF ranked_plans = << >> \/ count <= 0 THEN << >>
    ELSE IF Len(ranked_plans) <= count
    THEN [i \in 1..Len(ranked_plans) |-> ranked_plans[i].plan]
    ELSE LET selected == SelectLoop(<<ranked_plans[1].plan>>, ranked_plans, 2, count)
         IN  SubSeq(selected, 1, Min(count, Len(selected)))

\* Whether _is_diverse_from_selected, from selected[k] on, divides by a
\* monthly payment of 0 and so raises ZeroDivisionError: it does at the first
\* selected plan that is 5 years or more away in term and has payment 0,
\* unless the loop has returned before it.
RECURSIVE DiverseLoopRaises(_, _, _)
DiverseLoopRaises(plan, selected, k) ==
    IF k > Len(selected) THEN FALSE
    ELSE LET selected_plan == selected[k]
         IN  IF Abs(plan.term_years - selected_plan.term_years) < 5 THEN FALSE
             ELSE IF selected_plan.monthly_payment = 0 THEN TRUE
             ELSE IF (Abs(plan.monthly_payment - selected_plan.monthly_payment) * 100)
                         \div selected_plan.monthly_payment < 15 THEN FALSE
             ELSE DiverseLoopRaises(plan, selected, k + 1)

\* Whether the loop of select_best_plans, from ranked_plans[k] on, raises.
RECURSIVE SelectLoopRaises(_, _, _, _)
SelectLoopRaises(selected, ranked_plans, k, count) ==
    IF k > Len(ranked_plans) \/ Len(selected) >= count THEN FALSE
    ELSE IF DiverseLoopRaises(ranked_plans[k].plan, selected, 1) THEN TRUE
    ELSE SelectLoopRaises(IF _is_diverse_from_selected(ranked_plans[k].plan, selected)
                             \/ Len(selected) < count
                          THEN Append(selected, ranked_plans[k].plan)
                          ELSE selected,
                          ranked_plans, k + 1, count)

\* Whether select_best_plans raises ZeroDivisionError.
select_best_plans_raises(ranked_plans, count) ==
    IF ranked_plans = << >> \/ count <= 0 THEN FALSE
    ELSE IF Len(ranked_plans) <= count THEN FALSE
    ELSE SelectLoopRaises(<<ranked_plans[1].plan>>, ranked_plans, 2, count)

\* (100 - payment_to_income_ratio) + (1 / total_cost * 100000), in
\* thousandths, for total_cost # 0.
WinnerScore(plan) ==
    (1000 - plan.payment_to_income_ratio) * 100 + 100000000 \div plan.total_cost

\* _determine_winner that gives the first plan every comparison that is not
\* a tie.
_determine_winner_first(plan_a, plan_b) ==
    IF plan_a.total_cost = 0 \/ plan_b.total_cost = 0 THEN "ZeroDivisionError"
    ELSE LET score_a == WinnerScore(plan_a)
             score_b == WinnerScore(plan_b)
         IN  IF Abs(score_a - score_b) < 100 THEN "tie" ELSE "a"

\* _determine_winner with the lower score winning.
_determine_winner_lowest(plan_a, plan_b) ==
    IF plan_a.total_cost = 0 \/ plan_b.total_cost = 0 THEN "ZeroDivisionError"
    ELSE LET score_a == WinnerScore(plan_a)
             score_b == WinnerScore(plan_b)
         IN  IF Abs(score_a - score_b) < 100 THEN "tie"
             ELSE IF score_a < score_b THEN "a"
             ELSE "b"

\* _determine_winner; the division by a total_cost of 0 raises.
_determine_winner(plan_a, plan_b) ==
    IF plan_a.total_cost = 0 \/ plan_b.total_cost = 0 THEN "ZeroDivisionError"
    ELSE LET score_a == WinnerScore(plan_a)
             score_b == WinnerScore(plan_b)
         IN  IF Abs(score_a - score_b) < 100 THEN "tie"
             ELSE IF score_a > score_b THEN "a"
             ELSE "b"

\* The one entry of a list of advantages that has none.
NoAdvantage == <<[dimension |-> "alternative choice"]>>

\* _generate_pros that also credits a plan with the dimensions it ties on.
_generate_pros_or_equal(plan, other) ==
    LET pros ==
            (IF plan.monthly_payment <= other.monthly_payment
             THEN <<[dimension |-> "monthly_payment",
                     diff |-> other.monthly_payment - plan.monthly_payment]>>
             ELSE << >>)
         \o (IF plan.total_cost <= other.total_cost
             THEN <<[dimension |-> "total_cost",
                     diff |-> other.total_cost - plan.total_cost]>>
             ELSE << >>)
         \o (IF plan.total_interest <= other.total_interest
             THEN <<[dimension |-> "total_interest",
                     diff |-> other.total_interest - plan.total_interest]>>
             ELSE << >>)
         \o (IF plan.term_years <= other.term_years
             THEN <<[dimension |-> "term_years",
                     diff |-> other.term_years - plan.term_years]>>
             ELSE << >>)
         \o (IF plan.payment_to_income_ratio <= other.payment_to_income_ratio
             THEN <<[dimension |-> "payment_to_income_ratio"]>>
             ELSE << >>)
    IN  IF pros # << >> THEN pros ELSE NoAdvantage

\* _generate_pros: one entry for each dimension on which plan is lower than
\* other, in the order of the code, or the placeholder.
_generate_pros(plan, other) ==
    LET pros ==
            (IF plan.monthly_payment < other.monthly_payment
             THEN <<[dimension |-> "monthly_payment",
                     diff |-> other.monthly_payment - plan.monthly_payment]>>
             ELSE << >>)
         \o (IF plan.total_cost < other.total_cost
             THEN <<[dimension |-> "total_cost",
                     diff |-> other.total_cost - plan.total_cost]>>
             ELSE << >>)
         \o (IF plan.total_interest < other.total_interest
             THEN <<[dimension |-> "total_interest",
                     diff |-> other.total_interest - plan.total_interest]>>
             ELSE << >>)
         \o (IF plan.term_years < other.term_years
             THEN <<[dimension |-> "term_years",
                     diff |-> other.term_years - plan.term_years]>>
             ELSE << >>)
         \o (IF plan.payment_to_income_ratio < other.payment_to_income_ratio
             THEN <<[dimension |-> "payment_to_income_ratio"]>>
             ELSE << >>)
    IN  IF pros # << >> THEN pros ELSE NoAdvantage

_generate_comparison_recommendation(plan_a, plan_b, winner) ==
    IF winner = "a" THEN <<"best overall", plan_a.name>>
    ELSE IF winner = "b" THEN <<"best overall", plan_b.name>>
    ELSE <<"equally good">>

\* What a call that raised leaves in place of its result.
Raised(exception) == [raised |-> exception]
IsRaised(result) == "raised" \in DOMAIN result

\* compare_two_plans with the differences taken as plan a less plan b.
compare_two_plans_a_minus_b(plan_a, plan_b) ==
    LET winner == _determine_winner(plan_a, plan_b)
    IN  IF winner = "ZeroDivisionError" THEN Raised(winner)
        ELSE [plan_a |-> plan_a,
              plan_b |-> plan_b,
              winner |-> winner,
              monthly_payment_diff |-> plan_a.monthly_payment - plan_b.monthly_payment,
              total_cost_diff |-> plan_a.total_cost - plan_b.total_cost,
              interest_diff |-> plan_a.total_interest - plan_b.total_interest,
              term_diff |-> plan_a.term_years - plan_b.term_years,
              pros_plan_a |-> _generate_pros(plan_a, plan_b),
              pros_plan_b |-> _generate_pros(plan_b, plan_a),
              recommendation |-> _generate_comparison_recommendation(plan_a, plan_b, winner)]

\* compare_two_plans: the ComparisonResult, or the ZeroDivisionError of
\* _determine_winner.
compare_two_plans(plan_a, plan_b) ==
    LET winner == _determine_winner(plan_a, plan_b)
    IN  IF winner = "ZeroDivisionError" THEN Raised(winner)
        ELSE [plan_a |-> plan_a,
              plan_b |-> plan_b,
              winner |-> winner,
              monthly_payment_diff |-> plan_b.monthly_payment - plan_a.monthly_payment,
              total_cost_diff |-> plan_b.total_cost - plan_a.total_cost,
              interest_diff |-> plan_b.total_interest - plan_a.total_interest,
              term_diff |-> plan_b.term_years - plan_a.term_years,
              pros_plan_a |-> _generate_pros(plan_a, plan_b),
              pros_plan_b |-> _generate_pros(plan_b, plan_a),
              recommendation |-> _generate_comparison_recommendation(plan_a, plan_b, winner)]

(***************************************************************************)
(* AffordabilityService                                                    *)
(***************************************************************************)

\* Thresholds, in percent (the class has its own copies of the first two).
AFFORDABILITY_SAFE_PAYMENT_RATIO == 30
AFFORDABILITY_WARNING_PAYMENT_RATIO == 40
MINIMUM_SAVINGS_RATIO == 10

\* The ratio above which a danger status gets the high-ratio message.
HIGH_RATIO_MESSAGE_THRESHOLD == 35

\* get_affordability_status with the warning threshold itself counted as danger.
get_affordability_status_inclusive(payment_ratio, disposable_income, estimated_payment) ==
    IF disposable_income <= 0
       \/ payment_ratio >= AFFORDABILITY_WARNING_PAYMENT_RATIO * 10
    THEN "danger"
    ELSE IF disposable_income < estimated_payment THEN "danger"
    ELSE IF payment_ratio > AFFORDABILITY_SAFE_PAYMENT_RATIO * 10 THEN "warning"
    ELSE "safe"

get_affordability_status(payment_ratio, disposable_income, estimated_payment) ==
    IF disposable_income <= 0
       \/ payment_ratio > AFFORDABILITY_WARNING_PAYMENT_RATIO * 10
    THEN "danger"
    ELSE IF disposable_income < estimated_payment THEN "danger"
    ELSE IF payment_ratio > AFFORDABILITY_SAFE_PAYMENT_RATIO * 10 THEN "warning"
    ELSE "safe"

\* SavingsTip given also to savings of exactly the minimum.
SavingsTipInclusive(financial_data) ==
    IF financial_data.savings * 100 <= financial_data.loan_amount * MINIMUM_SAVINGS_RATIO
    THEN <<"savings tip">>
    ELSE << >>

\* The savings tip: savings < loan_amount * MINIMUM_SAVINGS_RATIO.
SavingsTip(financial_data) ==
    IF financial_data.savings * 100 < financial_data.loan_amount * MINIMUM_SAVINGS_RATIO
    THEN <<"savings tip">>
    ELSE << >>

\* The messages are named by what they say.
generate_recommendations(financial_data, metrics, status) ==
    LET disposable_income == metrics.disposable_income
        payment_ratio == metrics.payment_ratio
        estimated_payment == metrics.estimated_payment
        by_status ==
            IF status = "danger"
            THEN IF disposable_income <= 0 THEN <<"expenses exceed income">>
                 ELSE IF payment_ratio > HIGH_RATIO_MESSAGE_THRESHOLD * 10
                 THEN <<"payment high for income">>
                 ELSE IF disposable_income < estimated_payment
                 THEN <<"payment above disposable income">>
                 ELSE << >>
            ELSE IF status = "warning" THEN <<"payment at the safe limit">>
            ELSE <<"room for this loan">>
    IN  by_status \o SavingsTip(financial_data)

analyze_affordability(financial_data, metrics) ==
    LET status == get_affordability_status(metrics.payment_ratio,
                                           metrics.disposable_income,
                                           metrics.estimated_payment)
    IN  [status |-> status,
         recommendations |-> generate_recommendations(financial_data, metrics, status),
         metrics |-> metrics]

(***************************************************************************)
(* LoanInformationService                                                  *)
(***************************************************************************)

\* Default loan term in years, by type.
DEFAULT_TERMS ==
    [mortgage |-> 20, personal |-> 5, auto |-> 5, student |-> 10,
     business |-> 5, unknown |-> 5]

\* Default annual interest rate in basis points, by type.
DEFAULT_INTEREST_RATES ==
    [mortgage |-> 300, personal |-> 700, auto |-> 500, student |-> 400,
     business |-> 600, unknown |-> 500]

get_default_term(loan_type) ==
    IF loan_type \in DOMAIN DEFAULT_TERMS
    THEN DEFAULT_TERMS[loan_type]
    ELSE DEFAULT_TERMS["unknown"]

get_default_interest_rate(loan_type) ==
    IF loan_type \in DOMAIN DEFAULT_INTEREST_RATES
    THEN DEFAULT_INTEREST_RATES[loan_type]
    ELSE DEFAULT_INTEREST_RATES["unknown"]

(***************************************************************************)
(* FinancialCalculatorService                                              *)
(***************************************************************************)

calculate_monthly_payment(principal, annual_rate, years) ==
    IF principal <= 0 \/ years <= 0 THEN 0
    ELSE IF annual_rate = 0 THEN principal \div (years * 12)
    ELSE LET monthly_rate == MonthlyRate(annual_rate)
             num_payments == years * 12
         IN  AnnuityPayment(principal, monthly_rate, num_payments)

calculate_total_income(monthly_income, other_income) == monthly_income + other_income

calculate_total_expenses(monthly_expenses, existing_loans) == monthly_expenses + existing_loans

calculate_disposable_income(total_income, total_expenses) == total_income - total_expenses

\* payment / income * 100, in tenths of a percent.
calculate_payment_ratio(payment, income) ==
    IF income <= 0 THEN 0 ELSE (payment * 1000) \div income

\* term_years of a call that passes no term.
NoTermOverride == -1

calculate_financial_metrics(financial_data, loan_type, term_years) ==
    LET term == IF term_years = NoTermOverride
                THEN get_default_term(loan_type) ELSE term_years
        interest_rate == get_default_interest_rate(loan_type)
        total_income == calculate_total_income(financial_data.monthly_income,
                                               financial_data.other_income)
        total_expenses == calculate_total_expenses(financial_data.monthly_expenses,
                                                   financial_data.existing_loans)
        estimated_payment == calculate_monthly_payment(financial_data.loan_amount,
                                                       interest_rate, term)
    IN  [total_income |-> total_income,
         total_expenses |-> total_expenses,
         disposable_income |-> calculate_disposable_income(total_income, total_expenses),
         estimated_payment |-> estimated_payment,
         payment_ratio |-> calculate_payment_ratio(estimated_payment,
                                                   financial_data.monthly_income),
         term_years |-> term,
         interest_rate |-> interest_rate]

(***************************************************************************)
(* AmortizationService                                                     *)
(***************************************************************************)

\* The empty schedule with the principal as its one payment.
EmptySchedulePayingPrincipal(loan_amount, annual_interest_rate) ==
    [loan_amount |-> loan_amount,
     interest_rate |-> annual_interest_rate,
     term_months |-> 0,
     monthly_payment |-> loan_amount,
     periods |-> << >>,
     total_interest |-> 0,
     total_payments |-> 0]

\* The schedule returned for loan_amount <= 0 or term_years <= 0.
EmptySchedule(loan_amount, annual_interest_rate) ==
    [loan_amount |-> loan_amount,
     interest_rate |-> annual_interest_rate,
     term_months |-> 0,
     monthly_payment |-> 0,
     periods |-> << >>,
     total_interest |-> 0,
     total_payments |-> 0]

\* The monthly payment of a schedule with the annuity raised to the next
\* whole unit.
SchedulePaymentRoundedUp(loan_amount, monthly_rate, term_months) ==
    IF monthly_rate = 0 THEN loan_amount \div term_months
    ELSE AnnuityPayment(loan_amount, monthly_rate, term_months) + 1

\* The monthly payment of calculate_amortization_schedule.
SchedulePayment(loan_amount, monthly_rate, term_months) ==
    IF monthly_rate = 0 THEN loan_amount \div term_months
    ELSE AnnuityPayment(loan_amount, monthly_rate, term_months)

\* The local variables of calculate_amortization_schedule on entering its
\* loop.
EnterLoop(loan_amount, annual_interest_rate, term_years) ==
    LET monthly_rate == MonthlyRate(annual_interest_rate)
        term_months == term_years * 12
    IN  [loan_amount |-> loan_amount,
         annual_interest_rate |-> annual_interest_rate,
         monthly_rate |-> monthly_rate,
         term_months |-> term_months,
         monthly_payment |-> SchedulePayment(loan_amount, monthly_rate, term_months),
         periods |-> << >>,
         remaining_balance |-> loan_amount,
         cumulative_interest |-> 0,
         month |-> 1]

\* One iteration of the loop with the residual of the last month left in
\* the balance.
LoopBodyNoFold(l) ==
    LET interest_payment == (l.remaining_balance * l.monthly_rate) \div 100000
        principal_payment == l.monthly_payment - interest_payment
        cumulative_interest == l.cumulative_interest + interest_payment
        remaining_balance == l.remaining_balance - principal_payment
    IN  [l EXCEPT !.periods = Append(@, [period |-> l.month,
                                         payment |-> l.monthly_payment,
                                         principal |-> principal_payment,
                                         interest |-> interest_payment,
                                         remaining_balance |-> Max(0, remaining_balance),
                                         cumulative_interest |-> cumulative_interest]),
                  !.remaining_balance = remaining_balance,
                  !.cumulative_interest = cumulative_interest,
                  !.month = l.month + 1]

\* One iteration of the loop that stores the month's interest as the
\* cumulative interest.
LoopBodyNoAccumulate(l) ==
    LET interest_payment == (l.remaining_balance * l.monthly_rate) \div 100000
        principal_payment == l.monthly_payment - interest_payment
        remaining_balance == l.remaining_balance - principal_payment
        last == l.month = l.term_months
        final_principal == IF last THEN principal_payment + remaining_balance
                           ELSE principal_payment
        final_balance == IF last THEN 0 ELSE remaining_balance
    IN  [l EXCEPT !.periods = Append(@, [period |-> l.month,
                                         payment |-> l.monthly_payment,
                                         principal |-> final_principal,
                                         interest |-> interest_payment,
                                         remaining_balance |-> Max(0, final_balance),
                                         cumulative_interest |-> interest_payment]),
                  !.remaining_balance = final_balance,
                  !.cumulative_interest = interest_payment,
                  !.month = l.month + 1]

\* The loop body with the whole payment taken as principal and the interest
\* charged on top of it.
LoopBodyInterestOnTop(l) ==
    LET interest_payment == (l.remaining_balance * l.monthly_rate) \div 100000
        principal_payment == l.monthly_payment
        cumulative_interest == l.cumulative_interest + interest_payment
        remaining_balance == l.remaining_balance - principal_payment
        last == l.month = l.term_months
        final_principal == IF last THEN principal_payment + remaining_balance
                           ELSE principal_payment
        final_balance == IF last THEN 0 ELSE remaining_balance
    IN  [l EXCEPT !.periods = Append(@, [period |-> l.month,
                                         payment |-> l.monthly_payment,
                                         principal |-> final_principal,
                                         interest |-> interest_payment,
                                         remaining_balance |-> Max(0, final_balance),
                                         cumulative_interest |-> cumulative_interest]),
                  !.remaining_balance = final_balance,
                  !.cumulative_interest = cumulative_interest,
                  !.month = l.month + 1]

\* One iteration of `for month in range(1, term_months + 1)`: the month's
\* interest and principal, the running totals, the residual balance of the
\* last month moved into its principal, and the period appended.
LoopBody(l) ==
    LET interest_payment == (l.remaining_balance * l.monthly_rate) \div 100000
        principal_payment == l.monthly_payment - interest_payment
        cumulative_interest == l.cumulative_interest + interest_payment
        remaining_balance == l.remaining_balance - principal_payment
        last == l.month = l.term_months
        final_principal == IF last THEN principal_payment + remaining_balance
                           ELSE principal_payment
        final_balance == IF last THEN 0 ELSE remaining_balance
    IN  [l EXCEPT !.periods = Append(@, [period |-> l.month,
                                         payment |-> l.monthly_payment,
                                         principal |-> final_principal,
                                         interest |-> interest_payment,
                                         remaining_balance |-> Max(0, final_balance),
                                         cumulative_interest |-> cumulative_interest]),
                  !.remaining_balance = final_balance,
                  !.cumulative_interest = cumulative_interest,
                  !.month = l.month + 1]

\* The schedule with total_interest left at the sum of the payments.
ReturnScheduleGrossInterest(l) ==
    LET total_payments == l.monthly_payment * l.term_months
    IN  [loan_amount |-> l.loan_amount,
         interest_rate |-> l.annual_interest_rate,
         term_months |-> l.term_months,
         monthly_payment |-> l.monthly_payment,
         periods |-> l.periods,
         total_interest |-> total_payments,
         total_payments |-> total_payments]

\* The totals and the AmortizationSchedule returned after the loop.
ReturnSchedule(l) ==
    LET total_payments == l.monthly_payment * l.term_months
        total_interest == total_payments - l.loan_amount
    IN  [loan_amount |-> l.loan_amount,
         interest_rate |-> l.annual_interest_rate,
         term_months |-> l.term_months,
         monthly_payment |-> l.monthly_payment,
         periods |-> l.periods,
         total_interest |-> total_interest,
         total_payments |-> total_payments]

\* sum(values[lo..hi]), the range halved at each level.
RECURSIVE SumRange(_, _, _)
SumRange(values, lo, hi) ==
    IF lo > hi THEN 0
    ELSE IF lo = hi THEN values[lo]
    ELSE LET mid == (lo + hi) \div 2
         IN  SumRange(values, lo, mid) + SumRange(values, mid + 1, hi)

\* The bucket size of an interval; anything but monthly and quarterly is
\* taken as yearly.
GroupSize(interval) ==
    IF interval = "monthly" THEN 1
    ELSE IF interval = "quarterly" THEN 3
    ELSE 12

\* The label of the bucket whose last period is period_end.
PointLabel(interval, period_end) ==
    IF interval = "monthly" THEN <<"Month", period_end>>
    ELSE IF interval = "quarterly" THEN <<"Q", (period_end - 1) \div 3 + 1>>
    ELSE <<"Year", (period_end - 1) \div 12 + 1>>

\* get_schedule_summary that reports the first period of each bucket.
get_schedule_summary_first_period(schedule, interval) ==
    LET periods == schedule.periods
        n == Len(periods)
        group_size == GroupSize(interval)
        principal == [i \in 1..n |-> periods[i].principal]
        interest == [i \in 1..n |-> periods[i].interest]
    IN  IF n = 0 THEN << >>
        ELSE [k \in 1..((n + group_size - 1) \div group_size) |->
                LET first == (k - 1) * group_size + 1
                    last == Min(k * group_size, n)
                    last_period == periods[first]
                IN  [label |-> PointLabel(interval, last_period.period),
                     period_end |-> last_period.period,
                     principal_paid |-> SumRange(principal, first, last),
                     interest_paid |-> SumRange(interest, first, last),
                     remaining_balance |-> last_period.remaining_balance,
                     cumulative_interest |-> last_period.cumulative_interest]]

\* get_schedule_summary: one point per group periods[i : i + group_size],
\* i = 0, group_size, 2 group_size, ... below len(periods).
get_schedule_summary(schedule, interval) ==
    LET periods == schedule.periods
        n == Len(periods)
        group_size == GroupSize(interval)
        principal == [i \in 1..n |-> periods[i].principal]
        interest == [i \in 1..n |-> periods[i].interest]
    IN  IF n = 0 THEN << >>
        ELSE [k \in 1..((n + group_size - 1) \div group_size) |->
                LET first == (k - 1) * group_size + 1
                    last == Min(k * group_size, n)
                    last_period == periods[last]
                IN  [label |-> PointLabel(interval, last_period.period),
                     period_end |-> last_period.period,
                     principal_paid |-> SumRange(principal, first, last),
                     interest_paid |-> SumRange(interest, first, last),
                     remaining_balance |-> last_period.remaining_balance,
                     cumulative_interest |-> last_period.cumulative_interest]]

\* The zero-filled breakdown; it has no remaining_balance.
ZeroBreakdown(period) ==
    [period |-> period, payment |-> 0, principal |-> 0, interest |-> 0,
     principal_percentage |-> 0, interest_percentage |-> 0]

\* get_payment_breakdown that takes period 0 as the first period.
get_payment_breakdown_from_zero(schedule, period) ==
    IF schedule.periods = << >> \/ period < 0 \/ period > Len(schedule.periods)
    THEN ZeroBreakdown(period)
    ELSE LET payment_period == schedule.periods[Max(period, 1)]
         IN  [period |-> period,
              payment |-> payment_period.payment,
              principal |-> payment_period.principal,
              interest |-> payment_period.interest,
              principal_percentage |->
                  IF payment_period.payment > 0
                  THEN (payment_period.principal * 1000) \div payment_period.payment
                  ELSE 0,
              interest_percentage |->
                  IF payment_period.payment > 0
                  THEN (payment_period.interest * 1000) \div payment_period.payment
                  ELSE 0,
              remaining_balance |-> payment_period.remaining_balance]

\* get_payment_breakdown; the percentages are in tenths of a percent.
get_payment_breakdown(schedule, period) ==
    IF schedule.periods = << >> \/ period < 1 \/ period > Len(schedule.periods)
    THEN ZeroBreakdown(period)
    ELSE LET payment_period == schedule.periods[period]
         IN  [period |-> period,
              payment |-> payment_period.payment,
              principal |-> payment_period.principal,
              interest |-> payment_period.interest,
              principal_percentage |->
                  IF payment_period.payment > 0
                  THEN (payment_period.principal * 1000) \div payment_period.payment
                  ELSE 0,
              interest_percentage |->
                  IF payment_period.payment > 0
                  THEN (payment_period.interest * 1000) \div payment_period.payment
                  ELSE 0,
              remaining_balance |-> payment_period.remaining_balance]

(***************************************************************************)
(* FinancialLiteracyAssessment                                             *)
(***************************************************************************)

\* QUESTIONS: the id of each question and its 'correct' option.
QUESTIONS == [id \in {1, 2, 3} |-> IF id = 1 THEN "a" ELSE IF id = 2 THEN "c" ELSE "b"]

\* FinancialLiteracyAssessment(): score and answers after __init__.
NewAssessment == [score |-> 0, answers |-> << >>]

\* record_answer: the assessment after the call, or the ValueError of an id
\* that no question has.  Every correct answer adds 1 to score; the entry of
\* the question in answers is put or replaced.
record_answer(self, question_id, user_answer) ==
    IF question_id \notin DOMAIN QUESTIONS THEN Raised("ValueError")
    ELSE LET is_correct == (user_answer = QUESTIONS[question_id])
         IN  [score |-> IF is_correct THEN self.score + 1 ELSE self.score,
              answers |-> [id \in DOMAIN self.answers \cup {question_id} |->
                              IF id = question_id
                              THEN [user_answer |-> user_answer,
                                    correct_answer |-> QUESTIONS[question_id],
                                    is_correct |-> is_correct]
                              ELSE self.answers[id]]]

_calculate_level(score) ==
    IF score >= 3 THEN "ADVANCED"
    ELSE IF score >= 2 THEN "INTERMEDIATE"
    ELSE "BEGINNER"

(***************************************************************************)
(* The chat history of the two front ends: the Streamlit chat              *)
(* (_process_user_message) and the console chat (chat_loop).  A turn       *)
(* appends the user's message and calls the agent; the call may raise, and *)
(* so may the display of the reply.                                        *)
(***************************************************************************)

SystemMessage == [type |-> "system"]
HumanMessage == [type |-> "human"]
AIMessage == [type |-> "ai"]

\* list.pop()
Pop(list) == SubSeq(list, 1, Len(list) - 1)

\* What can happen inside the try block of a turn.
Outcomes == {"replied", "invoke raised", "display raised"}

\* _process_user_message and _generate_agent_response: the reply is written
\* before it is appended, and the handler of an exception pops the last
\* message if it is the user's.
_process_user_message(session_messages, outcome) ==
    LET messages == Append(session_messages, HumanMessage)
    IN  IF outcome = "replied" THEN Append(messages, AIMessage)
        ELSE IF messages # << >> /\ messages[Len(messages)] = HumanMessage
             THEN Pop(messages)
             ELSE messages

\* One pass of the loop of chat_loop for an input that is neither empty nor
\* an exit command: the reply is appended before it is printed, and the
\* handler of an exception pops the last message whatever it is.
chat_loop(history, outcome) ==
    LET chat_history == Append(history, HumanMessage)
    IN  IF outcome = "replied" THEN Append(chat_history, AIMessage)
        ELSE IF outcome = "invoke raised" THEN Pop(chat_history)
        ELSE Pop(Append(chat_history, AIMessage))

(***************************************************************************)
(* The callers: one request at a time builds a list of plans (the          *)
(* generator's, or one made of single create_loan_plan calls), ranks it    *)
(* and selects from it, or analyses the affordability of a loan, or       *)
(* computes the financial metrics of a loan, or builds an amortization     *)
(* schedule and asks for a summary or a payment breakdown of it.           *)
(***************************************************************************)

\* Bounds of the model.
MaxPlans == 3
MaxCount == 3
MaxTermYears == 2
MaxAnswers == 4
MaxTurns == 3

LoanTypes == {"mortgage", "personal", "auto", "student", "business", "unknown", "vacation"}
TotalAmounts == {-1000, 0, 10000, 50000, 100000}
MonthlyIncomes == {-500, 0, 3000}
Preferences == [prefer_short_term : BOOLEAN, prefer_long_term : BOOLEAN]

\* The arguments of single create_loan_plan calls.
PlanAmounts == {0, 10000, 100000}
PlanDownPayments == {0, 20, 100}
PlanTerms == {0, 3, 20}
PlanRate == 500
PlanIncome == 3000

\* The arguments of analyze_affordability.
PaymentRatios == {0, 250, 300, 301, 350, 351, 400, 401, 500}
DisposableIncomes == {-500, 0, 500, 700, 1000}
EstimatedPayments == {500, 700}
SavingsAmounts == {0, 1000, 2000}
LoanAmounts == {10000, 20000}

\* The arguments of calculate_financial_metrics.
MetricsLoanAmounts == {0, 100000}
OtherIncomes == {0, 500}
MonthlyExpenses == {1000, 4000}
ExistingLoans == {0, 300}
TermOverrides == {NoTermOverride, 10}

\* The arguments of calculate_amortization_schedule, get_schedule_summary
\* and get_payment_breakdown.
ScheduleAmounts == {-5000, 0, 120000, 1000000}
ScheduleRates == {0, 500, 700}
ScheduleTerms == (0 - 1)..MaxTermYears
Intervals == {"monthly", "quarterly", "yearly", "weekly"}
BreakdownPeriods == {-1, 0, 1, 2, 12, 13} \cup {12 * MaxTermYears, 12 * MaxTermYears + 1, 999}

\* LoanPlan values that a caller constructs itself: a plan that costs
\* nothing, and a plan paid in full by its down payment.
ConstructedPlans ==
    {[id |-> 1, name |-> <<"fast payoff", 5, "comfortable">>, amount |-> 0,
      term_years |-> 5, interest_rate |-> 0, down_payment |-> d,
      down_payment_percentage |-> IF d = 0 THEN 0 ELSE 100, monthly_payment |-> 0,
      total_interest |-> 0, total_cost |-> d, payment_to_income_ratio |-> 0] :
     d \in {0, 10000}}

\* The arguments of rank_loan_plans that are not plans or preferences.
FinancialDatas == {[monthly_income |-> monthly_income] : monthly_income \in {0, 3000}}

\* The arguments of record_answer.
QuestionIds == 1..4
UserAnswers == {"a", "b", "c"}

\* The two front ends of the chat.
FrontEnds == {"chat_ui", "main"}

NoRequest == [op |-> "none"]
NoError == "none"
NoAnalysis == [status |-> "none", recommendations |-> << >>]

VARIABLES pc, request, plans, preferences, ranked, count, selected, analysis, financial_metrics, loop, schedule, summary, breakdown, ranking_data, comparison, error, assessment, messages

vars == <<pc, request, plans, preferences, ranked, count, selected, analysis, financial_metrics, loop, schedule, summary, breakdown, ranking_data, comparison, error, assessment, messages>>

\* The state of a planning request and the state of a schedule request.
planVars == <<plans, preferences, ranking_data, ranked, count, selected, analysis, comparison, error>>
scheduleVars == <<financial_metrics, loop, schedule, summary, breakdown>>
sessionVars == <<assessment, messages>>

Init ==
    /\ pc = "idle"
    /\ request = NoRequest
    /\ plans = << >>
    /\ preferences = NoPreferences
    /\ ranked = << >>
    /\ count = 0
    /\ selected = << >>
    /\ analysis = NoAnalysis
    /\ financial_metrics = None
    /\ loop = None
    /\ schedule = None
    /\ summary = << >>
    /\ breakdown = None
    /\ ranking_data = None
    /\ comparison = None
    /\ error = NoError
    /\ assessment = NewAssessment
    /\ messages = << >>

\* generator.generate_loan_options(total_amount, loan_type, monthly_income)
GenerateLoanOptions ==
    /\ pc = "idle"
    /\ \E total_amount \in TotalAmounts, loan_type \in LoanTypes, monthly_income \in MonthlyIncomes :
          /\ request' = [op |-> "generate", total_amount |-> total_amount,
                         loan_type |-> loan_type, monthly_income |-> monthly_income]
          /\ plans' = generate_loan_options(total_amount, loan_type, monthly_income, NoCustomRate)
    /\ pc' = "planned"
    /\ UNCHANGED <<preferences, ranking_data, ranked, count, selected, analysis, comparison, error>>
    /\ UNCHANGED scheduleVars
    /\ UNCHANGED sessionVars

\* A caller that builds its list of plans with create_loan_plan, one call at
\* a time, and keeps the plans that are not None.
CreateLoanPlan ==
    /\ pc \in {"idle", "building"}
    /\ Len(plans) < MaxPlans
    /\ \E total_amount \in PlanAmounts, down_payment_percentage \in PlanDownPayments, term_years \in PlanTerms :
          LET plan == create_loan_plan(Len(plans) + 1, total_amount, down_payment_percentage,
                                       PlanRate, term_years, PlanIncome)
          IN  /\ request' = [op |-> "create", total_amount |-> total_amount,
                             down_payment_percentage |-> down_payment_percentage,
                             term_years |-> term_years, returned_none |-> IsNone(plan)]
              /\ plans' = AppendPlan(plans, plan)
    /\ pc' = "building"
    /\ UNCHANGED <<preferences, ranking_data, ranked, count, selected, analysis, comparison, error>>
    /\ UNCHANGED scheduleVars
    /\ UNCHANGED sessionVars

\* A caller that begins its list with a LoanPlan it has constructed itself.
ConstructLoanPlan ==
    /\ pc = "idle"
    /\ \E plan \in ConstructedPlans :
          /\ request' = [op |-> "construct", plan |-> plan]
          /\ plans' = <<plan>>
    /\ pc' = "building"
    /\ UNCHANGED <<preferences, ranking_data, ranked, count, selected, analysis, comparison, error>>
    /\ UNCHANGED scheduleVars
    /\ UNCHANGED sessionVars

\* comparison.rank_loan_plans(plans, financial_data, preferences)
RankLoanPlans ==
    /\ pc \in {"idle", "planned", "building"}
    /\ \E financial_data \in FinancialDatas, p \in Preferences :
          /\ ranking_data' = financial_data
          /\ preferences' = p
          /\ ranked' = rank_loan_plans(plans, financial_data, p)
    /\ pc' = "ranked"
    /\ UNCHANGED <<request, plans, count, selected, analysis, comparison, error>>
    /\ UNCHANGED scheduleVars
    /\ UNCHANGED sessionVars

\* comparison.select_best_plans(ranked_plans, count): the selection, or the
\* ZeroDivisionError of _is_diverse_from_selected.
SelectBestPlans ==
    /\ pc = "ranked"
    /\ \E c \in (0 - 1)..MaxCount :
          /\ count' = c
          /\ IF select_best_plans_raises(ranked, c)
             THEN /\ selected' = selected
                  /\ error' = "ZeroDivisionError"
                  /\ pc' = "raised"
             ELSE /\ selected' = select_best_plans(ranked, c)
                  /\ error' = NoError
                  /\ pc' = "selected"
    /\ UNCHANGED <<request, plans, preferences, ranking_data, ranked, analysis, comparison>>
    /\ UNCHANGED scheduleVars
    /\ UNCHANGED sessionVars

\* comparison.compare_two_plans(plan_a, plan_b) on two plans of the list:
\* the ComparisonResult, or the ZeroDivisionError of _determine_winner.
CompareTwoPlans ==
    /\ pc \in {"planned", "building"}
    /\ \E a \in 1..Len(plans), b \in 1..Len(plans) :
          LET result == compare_two_plans(plans[a], plans[b])
          IN  /\ request' = [op |-> "compare", plan_a |-> plans[a], plan_b |-> plans[b]]
              /\ IF IsRaised(result)
                 THEN /\ comparison' = comparison
                      /\ error' = result.raised
                      /\ pc' = "raised"
                 ELSE /\ comparison' = result
                      /\ error' = NoError
                      /\ pc' = "compared"
    /\ UNCHANGED <<plans, preferences, ranking_data, ranked, count, selected, analysis>>
    /\ UNCHANGED scheduleVars
    /\ UNCHANGED sessionVars

\* affordability.analyze_affordability(financial_data, metrics)
AnalyzeAffordability ==
    /\ pc = "idle"
    /\ \E payment_ratio \in PaymentRatios, disposable_income \in DisposableIncomes, estimated_payment \in EstimatedPayments, savings \in SavingsAmounts, loan_amount \in LoanAmounts :
          LET financial_data == [savings |-> savings, loan_amount |-> loan_amount]
              metrics == [payment_ratio |-> payment_ratio,
                          disposable_income |-> disposable_income,
                          estimated_payment |-> estimated_payment]
          IN  /\ request' = [op |-> "analyze", financial_data |-> financial_data]
              /\ analysis' = analyze_affordability(financial_data, metrics)
    /\ pc' = "analyzed"
    /\ UNCHANGED <<plans, preferences, ranking_data, ranked, count, selected, comparison, error>>
    /\ UNCHANGED scheduleVars
    /\ UNCHANGED sessionVars

\* calculator.calculate_financial_metrics(financial_data, loan_type, term_years)
CalculateFinancialMetrics ==
    /\ pc = "idle"
    /\ \E monthly_income \in MonthlyIncomes, other_income \in OtherIncomes, monthly_expenses \in MonthlyExpenses, existing_loans \in ExistingLoans, loan_amount \in MetricsLoanAmounts, loan_type \in LoanTypes, term_years \in TermOverrides :
          LET financial_data == [monthly_income |-> monthly_income,
                                 other_income |-> other_income,
                                 monthly_expenses |-> monthly_expenses,
                                 existing_loans |-> existing_loans,
                                 loan_amount |-> loan_amount]
          IN  /\ request' = [op |-> "metrics", financial_data |-> financial_data,
                             loan_type |-> loan_type, term_years |-> term_years]
              /\ financial_metrics' = calculate_financial_metrics(financial_data, loan_type, term_years)
    /\ pc' = "measured"
    /\ UNCHANGED planVars
    /\ UNCHANGED <<loop, schedule, summary, breakdown>>
    /\ UNCHANGED sessionVars

\* amortization.calculate_amortization_schedule(loan_amount, rate, term_years)
\* up to its loop: the empty schedule is returned at once, any other call
\* goes on to the loop.
CalculateAmortizationSchedule ==
    /\ pc = "idle"
    /\ \E loan_amount \in ScheduleAmounts, annual_interest_rate \in ScheduleRates, term_years \in ScheduleTerms :
          /\ request' = [op |-> "schedule", loan_amount |-> loan_amount,
                         annual_interest_rate |-> annual_interest_rate,
                         term_years |-> term_years]
          /\ IF loan_amount <= 0 \/ term_years <= 0
             THEN /\ schedule' = EmptySchedule(loan_amount, annual_interest_rate)
                  /\ loop' = loop
                  /\ pc' = "scheduled"
             ELSE /\ loop' = EnterLoop(loan_amount, annual_interest_rate, term_years)
                  /\ schedule' = schedule
                  /\ pc' = "amortizing"
    /\ UNCHANGED planVars
    /\ UNCHANGED <<financial_metrics, summary, breakdown>>
    /\ UNCHANGED sessionVars

\* One month of the loop of calculate_amortization_schedule; after the last
\* month the totals are taken and the schedule is returned.
AmortizeMonth ==
    /\ pc = "amortizing"
    /\ LET l == LoopBody(loop)
       IN  IF loop.month = loop.term_months
           THEN /\ schedule' = ReturnSchedule(l)
                /\ loop' = None
                /\ pc' = "scheduled"
           ELSE /\ loop' = l
                /\ schedule' = schedule
                /\ pc' = "amortizing"
    /\ UNCHANGED request
    /\ UNCHANGED planVars
    /\ UNCHANGED <<financial_metrics, summary, breakdown>>
    /\ UNCHANGED sessionVars

\* amortization.get_schedule_summary(schedule, interval)
GetScheduleSummary ==
    /\ pc = "scheduled"
    /\ \E interval \in Intervals :
          /\ request' = [op |-> "summary", interval |-> interval, call |-> request]
          /\ summary' = get_schedule_summary(schedule, interval)
    /\ pc' = "summarized"
    /\ UNCHANGED planVars
    /\ UNCHANGED <<financial_metrics, loop, schedule, breakdown>>
    /\ UNCHANGED sessionVars

\* amortization.get_payment_breakdown(schedule, period)
GetPaymentBreakdown ==
    /\ pc = "scheduled"
    /\ \E period \in BreakdownPeriods :
          /\ request' = [op |-> "breakdown", period |-> period, call |-> request]
          /\ breakdown' = get_payment_breakdown(schedule, period)
    /\ pc' = "broken_down"
    /\ UNCHANGED planVars
    /\ UNCHANGED <<financial_metrics, loop, schedule, summary>>
    /\ UNCHANGED sessionVars

\* assessment.record_answer(question_id, user_answer) on the assessment of
\* the session.
RecordAnswer ==
    /\ pc \in {"idle", "assessing"}
    /\ LET self == assessment
           calls == IF pc = "idle" THEN 0 ELSE request.calls
       IN  /\ calls < MaxAnswers
           /\ \E question_id \in QuestionIds, user_answer \in UserAnswers :
                 LET result == record_answer(self, question_id, user_answer)
                 IN  /\ request' = [op |-> "record_answer", question_id |-> question_id,
                                    user_answer |-> user_answer, calls |-> calls + 1,
                                    before |-> self]
                     /\ IF IsRaised(result)
                        THEN /\ assessment' = self
                             /\ error' = result.raised
                        ELSE /\ assessment' = result
                             /\ error' = NoError
    /\ pc' = "assessing"
    /\ UNCHANGED <<plans, preferences, ranking_data, ranked, count, selected, analysis, comparison>>
    /\ UNCHANGED scheduleVars
    /\ UNCHANGED messages

\* The chat begins: the history holds the system message.
InitializeChat ==
    /\ pc = "idle"
    /\ \E front_end \in FrontEnds :
          request' = [op |-> "chat", front_end |-> front_end, turns |-> 0,
                      outcome |-> "none", before |-> << >>]
    /\ messages' = <<SystemMessage>>
    /\ pc' = "chatting"
    /\ UNCHANGED planVars
    /\ UNCHANGED scheduleVars
    /\ UNCHANGED assessment

\* chat_ui._process_user_message(prompt)
ProcessUserMessage ==
    /\ pc = "chatting"
    /\ request.front_end = "chat_ui"
    /\ request.turns < MaxTurns
    /\ \E outcome \in Outcomes :
          /\ request' = [request EXCEPT !.turns = @ + 1, !.outcome = outcome,
                                        !.before = messages]
          /\ messages' = _process_user_message(messages, outcome)
    /\ pc' = "chatting"
    /\ UNCHANGED planVars
    /\ UNCHANGED scheduleVars
    /\ UNCHANGED assessment

\* One pass of the loop of main.chat_loop
ChatLoop ==
    /\ pc = "chatting"
    /\ request.front_end = "main"
    /\ request.turns < MaxTurns
    /\ \E outcome \in Outcomes :
          /\ request' = [request EXCEPT !.turns = @ + 1, !.outcome = outcome,
                                        !.before = messages]
          /\ messages' = chat_loop(messages, outcome)
    /\ pc' = "chatting"
    /\ UNCHANGED planVars
    /\ UNCHANGED scheduleVars
    /\ UNCHANGED assessment

\* The response is produced and its plans and schedule are dropped.
Done ==
    /\ pc \in {"selected", "analyzed", "measured", "summarized", "broken_down",
              "compared", "raised", "assessing", "chatting"}
    /\ pc' = "idle"
    /\ request' = NoRequest
    /\ plans' = << >>
    /\ preferences' = NoPreferences
    /\ ranked' = << >>
    /\ count' = 0
    /\ selected' = << >>
    /\ analysis' = NoAnalysis
    /\ financial_metrics' = None
    /\ loop' = None
    /\ schedule' = None
    /\ summary' = << >>
    /\ breakdown' = None
    /\ ranking_data' = None
    /\ comparison' = None
    /\ error' = NoError
    /\ assessment' = NewAssessment
    /\ messages' = << >>

Next ==
    \/ GenerateLoanOptions
    \/ CreateLoanPlan
    \/ ConstructLoanPlan
    \/ RankLoanPlans
    \/ SelectBestPlans
    \/ CompareTwoPlans
    \/ AnalyzeAffordability
    \/ CalculateFinancialMetrics
    \/ CalculateAmortizationSchedule
    \/ AmortizeMonth
    \/ GetScheduleSummary
    \/ GetPaymentBreakdown
    \/ RecordAnswer
    \/ InitializeChat
    \/ ProcessUserMessage
    \/ ChatLoop
    \/ Done

Spec == Init /\ [][Next]_vars

(***************************************************************************)
(* Properties                                                              *)
(***************************************************************************)

Ranked == pc \in {"ranked", "selected"}

\* p differs from q by at least 5 years of term or by at least 15% of q's
\* monthly payment.
DiverseEnough(p, q) ==
    \/ Abs(p.term_years - q.term_years) >= 5
    \/ Abs(p.monthly_payment - q.monthly_payment) * 100 >= 15 * q.monthly_payment

\* The place of plan p in the ranked list, and in the list that was ranked.
RankedPlace(p) == CHOOSE k \in 1..Len(ranked) : ranked[k].plan.id = p.id
InputPlace(p) == CHOOSE k \in 1..Len(plans) : plans[k].id = p.id

InRange(score) == 0 <= score /\ score <= 1000

\* C1: when the ranked list holds more plans than count, every plan that
\* select_best_plans returns after the first differs from each plan selected
\* before it by at least 5 years of term or at least 15% of monthly payment.
C1_SelectedPlansAreDiverse ==
    (pc = "selected" /\ Len(ranked) > count) =>
        \A j \in 2..Len(selected) : \A i \in 1..(j - 1) :
            DiverseEnough(selected[j], selected[i])

\* C2: every sub-score rank_loan_plans computes for a plan (affordability,
\* cost, payment, term, flexibility) lies in [0, 100].
C2_SubScoresInRange ==
    Ranked =>
        \A i \in 1..Len(ranked) :
            /\ InRange(ranked[i].affordability_score)
            /\ InRange(ranked[i].cost_score)
            /\ InRange(ranked[i].payment_score)
            /\ InRange(ranked[i].term_score)
            /\ InRange(_score_flexibility(ranked[i].plan))

\* C3: the overall score of every RankedPlan lies in [0, 100].
C3_OverallScoreInRange ==
    Ranked =>
        \A i \in 1..Len(ranked) : 0 <= ranked[i].score /\ ranked[i].score <= 100000

\* C4: select_best_plans returns exactly min(count, len(ranked)) plans when
\* count >= 1, and no plan when ranked is empty or count <= 0.
C4_SelectedLength ==
    pc = "selected" =>
        Len(selected) = IF ranked = << >> \/ count <= 0 THEN 0
                        ELSE Min(count, Len(ranked))

\* C4 witness: two plans are returned out of more, the second of them not
\* diverse from the first.
C4_Witness ==
    /\ pc = "selected"
    /\ count = 2
    /\ Len(ranked) > 2
    /\ Len(selected) = 2
    /\ ~DiverseEnough(selected[2], selected[1])

\* C5: for a non-empty ranked list and count >= 1 the result starts with the
\* top-ranked plan and is a subsequence of the ranked list: its plans are in
\* rank order and none is returned twice.
C5_SelectedIsSubsequence ==
    (pc = "selected" /\ ranked # << >> /\ count >= 1) =>
        /\ selected # << >>
        /\ selected[1] = ranked[1].plan
        /\ \A i \in 1..Len(selected) :
              \E k \in 1..Len(ranked) : ranked[k].plan = selected[i]
        /\ \A i \in 1..(Len(selected) - 1) :
              RankedPlace(selected[i]) < RankedPlace(selected[i + 1])

\* C5 witness: a selection of several plans out of more.
C5_Witness ==
    /\ pc = "selected"
    /\ Len(ranked) > count
    /\ Len(selected) >= 2
    /\ selected[2] = ranked[2].plan
\* C6: rank_loan_plans returns one RankedPlan per input plan, the output
\* plans being a permutation of the input plans, in order of non-increasing
\* overall score; an empty input gives an empty output.
C6_RankedIsSortedPermutation ==
    Ranked =>
        /\ Len(ranked) = Len(plans)
        /\ \A i \in 1..Len(plans) :
              Cardinality({k \in 1..Len(ranked) : ranked[k].plan = plans[i]}) = 1
        /\ \A k \in 1..(Len(ranked) - 1) : ranked[k].score >= ranked[k + 1].score

\* C6 witness: a ranking of at least three plans that reorders them.
C6_Witness ==
    /\ pc = "ranked"
    /\ Len(ranked) >= 3
    /\ ranked[1].plan # plans[1]
    /\ ranked[1].score > ranked[Len(ranked)].score

\* C7: two plans of equal overall score are ranked in the order they had in
\* the input list.
C7_RankingIsStable ==
    Ranked =>
        \A i \in 1..Len(ranked) : \A j \in (i + 1)..Len(ranked) :
            ranked[i].score = ranked[j].score =>
                InputPlace(ranked[i].plan) < InputPlace(ranked[j].plan)

\* C7 witness: a ranking that holds two plans of equal score.
C7_Witness ==
    /\ pc = "ranked"
    /\ \E i \in 1..Len(ranked) : \E j \in (i + 1)..Len(ranked) :
          ranked[i].score = ranked[j].score

\* The status the three-way classification gives.
ExpectedStatus(payment_ratio, disposable_income, estimated_payment) ==
    IF disposable_income <= 0 \/ payment_ratio > 400
       \/ disposable_income < estimated_payment
    THEN "danger"
    ELSE IF payment_ratio > 300 THEN "warning"
    ELSE "safe"

\* C8: get_affordability_status is 'danger' exactly when disposable_income <= 0
\* or payment_ratio > 40 or disposable_income < estimated_payment, otherwise
\* 'warning' exactly when payment_ratio > 30, otherwise 'safe'.
C8_StatusIsThreeWay ==
    pc = "analyzed" =>
        analysis.status = ExpectedStatus(analysis.metrics.payment_ratio,
                                         analysis.metrics.disposable_income,
                                         analysis.metrics.estimated_payment)

\* C8 witness: a ratio of exactly 40 with a disposable income equal to the
\* payment is classified, and is not danger.
C8_Witness ==
    /\ pc = "analyzed"
    /\ analysis.metrics.payment_ratio = 400
    /\ analysis.metrics.disposable_income = analysis.metrics.estimated_payment
    /\ analysis.status = "warning"

\* The one message a status gets.
ExpectedMessage(status, metrics) ==
    IF status = "danger"
    THEN IF metrics.disposable_income <= 0 THEN "expenses exceed income"
         ELSE IF metrics.payment_ratio > 350 THEN "payment high for income"
         ELSE "payment above disposable income"
    ELSE IF status = "warning" THEN "payment at the safe limit"
    ELSE "room for this loan"

\* C9: analyze_affordability returns exactly one status-specific message,
\* followed by the savings tip if and only if savings < 10% of loan_amount;
\* the list is never empty.
C9_Recommendations ==
    pc = "analyzed" =>
        LET recs == analysis.recommendations
            tip == request.financial_data.savings * 10
                       < request.financial_data.loan_amount
        IN  /\ recs # << >>
            /\ Len(recs) = IF tip THEN 2 ELSE 1
            /\ recs[1] = ExpectedMessage(analysis.status, analysis.metrics)
            /\ tip => recs[2] = "savings tip"

\* C9 witness: a danger status by payment above disposable income alone,
\* with the savings tip.
C9_Witness ==
    /\ pc = "analyzed"
    /\ analysis.status = "danger"
    /\ analysis.recommendations = <<"payment above disposable income", "savings tip">>

\* The term list of a category, as the table of categories gives it.
ExpectedTerms(loan_type) ==
    IF loan_type = "mortgage" THEN <<15, 20, 25, 30>>
    ELSE IF loan_type \in {"personal", "auto"} THEN <<3, 5, 7>>
    ELSE IF loan_type = "student" THEN <<10, 15, 20>>
    ELSE <<5, 10, 15>>

ExpectedRate(loan_type) ==
    IF loan_type = "mortgage" THEN 350
    ELSE IF loan_type = "personal" THEN 700
    ELSE IF loan_type = "auto" THEN 500
    ELSE IF loan_type = "student" THEN 400
    ELSE 600

\* C11: calculate_financial_metrics called without a term uses the default
\* annual rate of the loan type from the table generate_loan_options uses
\* (mortgage 0.035, personal 0.07, auto 0.05, student 0.04, business 0.06,
\* and 0.06 for unknown and for any other type), a default term that is one
\* of the type's term options, and estimates the payment on the whole
\* loan_amount.
C11_MetricsUseGeneratorDefaults ==
    (pc = "measured" /\ request.term_years = NoTermOverride) =>
        LET generator_rate == IF request.loan_type \in DOMAIN DEFAULT_RATES
                              THEN DEFAULT_RATES[request.loan_type]
                              ELSE DEFAULT_RATES["unknown"]
            terms == ExpectedTerms(request.loan_type)
        IN  /\ financial_metrics.interest_rate = ExpectedRate(request.loan_type)
            /\ financial_metrics.interest_rate = generator_rate
            /\ \E k \in 1..Len(terms) : terms[k] = financial_metrics.term_years
            /\ financial_metrics.estimated_payment
                  = calculate_monthly_payment(request.financial_data.loan_amount,
                                              financial_metrics.interest_rate,
                                              financial_metrics.term_years)

\* A schedule has been returned; ScheduleCall is the call that returned it.
Returned == pc \in {"scheduled", "summarized", "broken_down"}
ScheduleCall == IF pc = "scheduled" THEN request ELSE request.call
Regular == Returned /\ ScheduleCall.loan_amount > 0 /\ ScheduleCall.term_years > 0

\* C12: for principal > 0 and term_years > 0 the schedule has exactly
\* 12 * term_years periods, numbered 1..n in order; no remaining balance is
\* negative; the last remaining balance is exactly 0, and what was left of
\* the balance before the last payment is that period's principal.
C12_ScheduleShape ==
    Regular =>
        LET periods == schedule.periods
            n == Len(periods)
        IN  /\ n = 12 * ScheduleCall.term_years
            /\ n = schedule.term_months
            /\ \A i \in 1..n : periods[i].period = i
            /\ \A i \in 1..n : periods[i].remaining_balance >= 0
            /\ periods[n].remaining_balance = 0
            /\ periods[n].principal = periods[n - 1].remaining_balance

\* C12 witness: a returned two-year schedule at a positive rate whose last
\* principal is not the payment less the interest, a residual having been
\* added to it.
C12_Witness ==
    /\ pc = "scheduled"
    /\ ScheduleCall.annual_interest_rate > 0
    /\ Len(schedule.periods) = 24
    /\ schedule.periods[24].principal
          # schedule.periods[24].payment - schedule.periods[24].interest

\* C13: for principal > 0, term > 0 and rate >= 0, from each period to the
\* next the remaining balance does not increase and the cumulative interest
\* does not decrease, and it increases when the rate is positive.
C13_ScheduleMonotone ==
    Regular =>
        LET periods == schedule.periods
        IN  \A i \in 1..(Len(periods) - 1) :
               /\ periods[i + 1].remaining_balance <= periods[i].remaining_balance
               /\ periods[i + 1].cumulative_interest >= periods[i].cumulative_interest
               /\ ScheduleCall.annual_interest_rate > 0 =>
                     periods[i + 1].cumulative_interest > periods[i].cumulative_interest

\* C13 witness: a returned schedule at a positive rate, its balance falling
\* and its cumulative interest rising over the first two periods.
C13_Witness ==
    /\ pc = "scheduled"
    /\ ScheduleCall.annual_interest_rate > 0
    /\ Len(schedule.periods) = 12
    /\ schedule.periods[2].remaining_balance < schedule.periods[1].remaining_balance
    /\ schedule.periods[2].cumulative_interest > schedule.periods[1].cumulative_interest

\* What cutting the payment and each month's interest to whole units can add
\* up to over a schedule: two units a month.
Tolerance(term_months) == 2 * term_months

C15_TotalsOfEverySchedule ==
    Returned =>
        /\ schedule.total_payments = schedule.monthly_payment * schedule.term_months
        /\ schedule.total_interest = schedule.total_payments - schedule.loan_amount

\* get_schedule_summary has answered a schedule of no periods.
SummaryOfEmpty == pc = "summarized" /\ schedule.periods = << >>

\* C16: for principal <= 0 or term_years <= 0 the schedule returned has
\* monthly payment 0, term_months 0 and no periods, and get_schedule_summary
\* returns the empty list for it whatever the interval.
C16_DegenerateSchedule ==
    (Returned /\ (ScheduleCall.loan_amount <= 0 \/ ScheduleCall.term_years <= 0)) =>
        /\ schedule.monthly_payment = 0
        /\ schedule.term_months = 0
        /\ schedule.periods = << >>
        /\ pc = "summarized" => summary = << >>

\* C16 witness: the quarterly summary of the schedule of a positive principal
\* over a term of 0 years.
C16_Witness ==
    /\ SummaryOfEmpty
    /\ ScheduleCall.loan_amount > 0
    /\ ScheduleCall.term_years = 0
    /\ request.interval = "quarterly"

\* C17: get_payment_breakdown returns payment, principal, interest and both
\* percentages 0 for a period below 1 or above the number of periods, a
\* schedule of no periods included, and otherwise the payment, principal and
\* interest stored for that period.
C17_PaymentBreakdown ==
    pc = "broken_down" =>
        LET period == request.period
            periods == schedule.periods
        IN  /\ breakdown.period = period
            /\ IF period < 1 \/ period > Len(periods)
               THEN /\ breakdown.payment = 0
                    /\ breakdown.principal = 0
                    /\ breakdown.interest = 0
                    /\ breakdown.principal_percentage = 0
                    /\ breakdown.interest_percentage = 0
               ELSE /\ breakdown.payment = periods[period].payment
                    /\ breakdown.principal = periods[period].principal
                    /\ breakdown.interest = periods[period].interest

\* C17 witness: the breakdown of period 0 of a schedule that has periods.
C17_Witness ==
    /\ pc = "broken_down"
    /\ request.period = 0
    /\ schedule.periods # << >>
    /\ breakdown.payment = 0

\* The bucket size the summary of an interval is specified to use.
BucketSize(interval) ==
    IF interval = "monthly" THEN 1 ELSE IF interval = "quarterly" THEN 3 ELSE 12

\* C20: for n periods and bucket size s (monthly 1, quarterly 3, yearly 12)
\* get_schedule_summary returns ceil(n / s) points in period order; point k
\* has the principal and the interest of periods (k-1)s+1 .. min(ks, n)
\* summed, and the remaining balance, cumulative interest and period number
\* of the last of them; the principal of the points adds up to the principal
\* of the schedule, and the last point's remaining balance is 0.
C20_ScheduleSummary ==
    (pc = "summarized" /\ request.interval \in {"monthly", "quarterly", "yearly"}) =>
        LET periods == schedule.periods
            n == Len(periods)
            s == BucketSize(request.interval)
            points == Len(summary)
            principal == [i \in 1..n |-> periods[i].principal]
            interest == [i \in 1..n |-> periods[i].interest]
            paid == [k \in 1..points |-> summary[k].principal_paid]
        IN  /\ points * s >= n
            /\ (points - 1) * s < n \/ (points = 0 /\ n = 0)
            /\ \A k \in 1..points :
                  LET first == (k - 1) * s + 1
                      last == Min(k * s, n)
                  IN  /\ summary[k].period_end = last
                      /\ summary[k].principal_paid = SumRange(principal, first, last)
                      /\ summary[k].interest_paid = SumRange(interest, first, last)
                      /\ summary[k].remaining_balance = periods[last].remaining_balance
                      /\ summary[k].cumulative_interest = periods[last].cumulative_interest
            /\ \A k \in 1..(points - 1) : summary[k].period_end < summary[k + 1].period_end
            /\ SumRange(paid, 1, points) = SumRange(principal, 1, n)
            /\ points > 0 => summary[points].remaining_balance = 0

\* C20 witness: the quarterly summary of a two-year schedule at a positive
\* rate, eight points.
C20_Witness ==
    /\ pc = "summarized"
    /\ request.interval = "quarterly"
    /\ Len(schedule.periods) = 24
    /\ Len(summary) = 8
    /\ summary[1].interest_paid > 0

\* The fields of a LoanPlan.
PlanFields ==
    {"id", "name", "amount", "term_years", "interest_rate", "down_payment",
     "down_payment_percentage", "monthly_payment", "total_interest",
     "total_cost", "payment_to_income_ratio"}

\* C18: create_loan_plan returns None exactly when total_amount less the down
\* payment is <= 0 or term_years <= 0, and a plan with every field set
\* otherwise; generate_loan_options returns the empty list for
\* total_amount <= 0, and None is never in its list.
C18_NoPlanExactlyWhenDegenerate ==
    /\ request.op = "create" =>
          LET down_payment == (request.total_amount * request.down_payment_percentage) \div 100
              degenerate == request.total_amount - down_payment <= 0
                                \/ request.term_years <= 0
          IN  /\ request.returned_none <=> degenerate
              /\ ~degenerate =>
                    /\ plans # << >>
                    /\ DOMAIN plans[Len(plans)] = PlanFields
                    /\ plans[Len(plans)].amount = request.total_amount - down_payment
                    /\ plans[Len(plans)].term_years = request.term_years
                    /\ plans[Len(plans)].monthly_payment > 0
    /\ request.op = "generate" =>
          /\ request.total_amount <= 0 => plans = << >>
          /\ \A k \in 1..Len(plans) : ~IsNone(plans[k]) /\ DOMAIN plans[k] = PlanFields

\* C18 witness: create_loan_plan has returned None for a positive amount
\* with a down payment of all of it.
C18_Witness ==
    /\ pc = "building"
    /\ request.total_amount > 0
    /\ request.down_payment_percentage = 100
    /\ request.term_years > 0
    /\ request.returned_none

\* The monthly_income the plans of the request were made for.
RequestIncome == IF request.op = "generate" THEN request.monthly_income ELSE PlanIncome

\* C19: every plan of create_loan_plan has amount + down_payment =
\* total_amount, total_cost = monthly_payment * 12 * term_years +
\* down_payment, total_interest = total_cost - down_payment - amount, and
\* payment_to_income_ratio = monthly_payment / monthly_income * 100 for
\* monthly_income > 0 and 0 for monthly_income <= 0.
C19_PlanIdentities ==
    request.op \in {"create", "generate"} =>
        /\ \A k \in 1..Len(plans) :
              /\ plans[k].total_cost
                    = plans[k].monthly_payment * 12 * plans[k].term_years
                         + plans[k].down_payment
              /\ plans[k].total_interest
                    = plans[k].total_cost - plans[k].down_payment - plans[k].amount
              /\ plans[k].payment_to_income_ratio
                    = IF RequestIncome > 0
                      THEN (plans[k].monthly_payment * 1000) \div RequestIncome
                      ELSE 0
        /\ request.op = "generate" =>
              \A k \in 1..Len(plans) :
                 plans[k].amount + plans[k].down_payment = request.total_amount
        /\ (request.op = "create" /\ ~request.returned_none) =>
              plans[Len(plans)].amount + plans[Len(plans)].down_payment
                 = request.total_amount

\* C19 witness: the plans generated for a mortgage above the threshold and
\* an income of 3000, each with a down payment and a ratio above 0.
C19_Witness ==
    /\ pc = "planned"
    /\ request.monthly_income = 3000
    /\ plans # << >>
    /\ plans[1].down_payment > 0
    /\ plans[1].total_interest > 0
    /\ plans[1].payment_to_income_ratio > 0


\* The plans of the last comparison that returned, and the comparison of
\* the same two plans the other way round.
Compared == pc = "compared"
SwappedComparison == compare_two_plans(comparison.plan_b, comparison.plan_a)

\* C21: compare_two_plans reports the winner by the value
\* (100 - payment_to_income_ratio) + 100000 / total_cost of each plan: 'tie'
\* when the two values differ by less than 0.1, otherwise the plan with the
\* higher value; and the verdict is symmetric: compare(a, b) reports 'a'
\* exactly when compare(b, a) reports 'b', and 'tie' exactly when
\* compare(b, a) reports 'tie'.
C21_WinnerByValueAndSymmetric ==
    Compared =>
        LET value_a == WinnerScore(comparison.plan_a)
            value_b == WinnerScore(comparison.plan_b)
        IN  /\ (comparison.winner = "tie") <=> (Abs(value_a - value_b) < 100)
            /\ (comparison.winner = "a") <=> (value_a - value_b >= 100)
            /\ (comparison.winner = "b") <=> (value_b - value_a >= 100)
            /\ ~IsRaised(SwappedComparison)
            /\ (comparison.winner = "a") <=> (SwappedComparison.winner = "b")
            /\ (comparison.winner = "b") <=> (SwappedComparison.winner = "a")
            /\ (comparison.winner = "tie") <=> (SwappedComparison.winner = "tie")

C21_Witness ==
    /\ Compared
    /\ comparison.plan_a # comparison.plan_b
    /\ comparison.winner = "a"
    /\ SwappedComparison.winner = "b"

\* C22: compare_two_plans(a, b) reports each of the four differences
\* (monthly payment, total cost, total interest, term) as the value of plan b
\* less the value of plan a, so the comparison of the same plans the other
\* way round reports the four differences negated, and the comparison of a
\* plan with itself reports four zeros and a 'tie'.
C22_DifferencesAreBMinusA ==
    Compared =>
        LET a == comparison.plan_a
            b == comparison.plan_b
        IN  /\ comparison.monthly_payment_diff = b.monthly_payment - a.monthly_payment
            /\ comparison.total_cost_diff = b.total_cost - a.total_cost
            /\ comparison.interest_diff = b.total_interest - a.total_interest
            /\ comparison.term_diff = b.term_years - a.term_years
            /\ SwappedComparison.monthly_payment_diff = 0 - comparison.monthly_payment_diff
            /\ SwappedComparison.total_cost_diff = 0 - comparison.total_cost_diff
            /\ SwappedComparison.interest_diff = 0 - comparison.interest_diff
            /\ SwappedComparison.term_diff = 0 - comparison.term_diff
            /\ a = b => /\ comparison.monthly_payment_diff = 0
                        /\ comparison.total_cost_diff = 0
                        /\ comparison.interest_diff = 0
                        /\ comparison.term_diff = 0
                        /\ comparison.winner = "tie"

C22_Witness ==
    /\ Compared
    /\ comparison.monthly_payment_diff > 0
    /\ comparison.total_cost_diff < 0
    /\ comparison.interest_diff < 0
    /\ comparison.term_diff < 0
    /\ SwappedComparison.monthly_payment_diff < 0

\* The dimensions on which two plans are compared, and the dimensions a list
\* of advantages has an entry for.
Dimensions == {"monthly_payment", "total_cost", "total_interest", "term_years", "payment_to_income_ratio"}
Credited(pros) == {pros[i].dimension : i \in 1..Len(pros)} \cap Dimensions
StrictlyBetter(plan, other) == {d \in Dimensions : plan[d] < other[d]}

\* C23: both lists of advantages that compare_two_plans returns are
\* non-empty; the list of a plan has an entry for a dimension exactly when
\* the plan is strictly lower than the other plan on it, so no dimension is
\* credited to both plans; and the list is the single placeholder entry when
\* the plan is strictly lower on no dimension.
C23_ProsAreStrictAdvantages ==
    Compared =>
        LET a == comparison.plan_a
            b == comparison.plan_b
            pros_a == comparison.pros_plan_a
            pros_b == comparison.pros_plan_b
        IN  /\ pros_a # << >>
            /\ pros_b # << >>
            /\ Credited(pros_a) = StrictlyBetter(a, b)
            /\ Credited(pros_b) = StrictlyBetter(b, a)
            /\ Credited(pros_a) \cap Credited(pros_b) = {}
            /\ (StrictlyBetter(a, b) = {}) <=> (pros_a = NoAdvantage)
            /\ (StrictlyBetter(b, a) = {}) <=> (pros_b = NoAdvantage)
            /\ StrictlyBetter(a, b) # {} => Len(pros_a) = Cardinality(StrictlyBetter(a, b))
            /\ StrictlyBetter(b, a) # {} => Len(pros_b) = Cardinality(StrictlyBetter(b, a))

C23_Witness ==
    /\ Compared
    /\ comparison.pros_plan_a = NoAdvantage
    /\ Len(comparison.pros_plan_b) = 5
    /\ comparison.plan_a.term_years > comparison.plan_b.term_years

\* C28: when compare_two_plans names one of two plans of positive total cost
\* the winner, that plan is strictly lower than the other on total cost or on
\* payment-to-income ratio, so the winner's list of advantages is not the
\* placeholder.
C28_WinnerHasAnAdvantage ==
    (Compared /\ comparison.plan_a.total_cost > 0 /\ comparison.plan_b.total_cost > 0) =>
        LET a == comparison.plan_a
            b == comparison.plan_b
        IN  /\ comparison.winner = "a" =>
                  /\ \/ a.total_cost < b.total_cost
                     \/ a.payment_to_income_ratio < b.payment_to_income_ratio
                  /\ comparison.pros_plan_a # NoAdvantage
            /\ comparison.winner = "b" =>
                  /\ \/ b.total_cost < a.total_cost
                     \/ b.payment_to_income_ratio < a.payment_to_income_ratio
                  /\ comparison.pros_plan_b # NoAdvantage

C28_Witness ==
    /\ Compared
    /\ comparison.winner = "b"
    /\ comparison.plan_b.total_cost > 0
    /\ comparison.plan_b.total_cost > comparison.plan_a.total_cost
    /\ comparison.plan_b.payment_to_income_ratio < comparison.plan_a.payment_to_income_ratio
    /\ comparison.pros_plan_b # NoAdvantage


\* C24: rank_loan_plans, select_best_plans and compare_two_plans return a
\* result and never raise a division fault, whatever LoanPlan values they
\* are given, plans of monthly payment 0 or of total cost 0 included.
C24_ComparisonNeverRaises ==
    error # "ZeroDivisionError"

\* C26: after any sequence of record_answer calls with valid question ids,
\* the same question answered more than once included, score is the number
\* of entries of answers whose is_correct is true, and so 0 <= score <= 3.
CorrectEntries == {id \in DOMAIN assessment.answers : assessment.answers[id].is_correct}

C26_ScoreCountsCorrectEntries ==
    /\ assessment.score = Cardinality(CorrectEntries)
    /\ assessment.score >= 0
    /\ assessment.score <= 3


\* C27: when the agent call fails in a turn, the user's message that the
\* turn appended is removed, so the history after the turn is the history
\* before it; when the turn succeeds the history grows by the user's message
\* followed by the assistant's reply; hence between turns the history never
\* ends with a user's message that has no reply.
C27_HistoryHasNoUnansweredMessage ==
    (pc = "chatting" /\ request.turns > 0) =>
        /\ request.outcome = "invoke raised" => messages = request.before
        /\ request.outcome = "replied" =>
              messages = request.before \o <<HumanMessage, AIMessage>>
        /\ messages[Len(messages)] # HumanMessage


\* How far principal + interest of a period is from its payment.
PortionGap(period) == Abs(period.principal + period.interest - period.payment)

PlanOf(principal, annual_rate, term_years) ==
    create_loan_plan(1, principal, 0, annual_rate, term_years, PlanIncome)

\* C29: the three computations of the monthly payment agree: for a principal
\* > 0, a term > 0 and a rate >= 0 (rate 0 included) the monthly_payment that
\* create_loan_plan stores is the monthly_payment of
\* calculate_amortization_schedule and the result of
\* FinancialCalculatorService.calculate_monthly_payment for the same
\* principal, rate and term; so the schedule drawn for a plan has the plan's
\* payment, and the plan's total_interest is the schedule's total_interest.
C29_PaymentsAgree ==
    /\ Regular =>
          LET call == ScheduleCall
              plan == PlanOf(call.loan_amount, call.annual_interest_rate, call.term_years)
          IN  /\ ~IsNone(plan)
              /\ plan.amount = schedule.loan_amount
              /\ plan.monthly_payment = schedule.monthly_payment
              /\ calculate_monthly_payment(call.loan_amount, call.annual_interest_rate,
                                           call.term_years) = schedule.monthly_payment
              /\ _calculate_monthly_payment(call.loan_amount, call.annual_interest_rate,
                                            call.term_years) = schedule.monthly_payment
              /\ plan.total_interest = schedule.total_interest
    /\ pc \in {"planned", "building"} =>
          \A i \in 1..Len(plans) :
              plans[i].amount > 0 =>
                  LET term_months == plans[i].term_years * 12
                      payment == SchedulePayment(plans[i].amount,
                                                 MonthlyRate(plans[i].interest_rate),
                                                 term_months)
                  IN  /\ payment = plans[i].monthly_payment
                      /\ payment = calculate_monthly_payment(plans[i].amount,
                                                             plans[i].interest_rate,
                                                             plans[i].term_years)
                      /\ payment * term_months - plans[i].amount = plans[i].total_interest

\* C29 witness: a returned schedule at rate 0 whose payment is the payment of
\* the plan of the same principal and term.
C29_Witness ==
    /\ pc = "scheduled"
    /\ Regular
    /\ ScheduleCall.annual_interest_rate = 0
    /\ schedule.monthly_payment > 0
    /\ schedule.monthly_payment =
          PlanOf(ScheduleCall.loan_amount, 0, ScheduleCall.term_years).monthly_payment


\* C30: the result of rank_loan_plans depends on the plans and the
\* preferences only: a call with the same plans and preferences and another
\* financial_data returns the same order and the same scores.
C30_RankingIgnoresFinancialData ==
    pc = "ranked" =>
        \A financial_data \in FinancialDatas :
            rank_loan_plans(plans, financial_data, preferences) = ranked

\* C30 witness: a ranking of plans of different scores, made for a borrower
\* without income, that is also the ranking for an income of 3000.
C30_Witness ==
    /\ pc = "ranked"
    /\ ranking_data.monthly_income = 0
    /\ Len(ranked) >= 2
    /\ ranked[1].score > ranked[2].score
    /\ ranked[1].term_score # ranked[2].term_score
    /\ rank_loan_plans(plans, [monthly_income |-> 3000], preferences) = ranked

====
